---------------------------- MODULE Spec2Model ----------------------------
(***************************************************************************)
(* scripts/optimize_routes.py: the open-path TSP batch solver.             *)
(*                                                                         *)
(* main() reads a batch of clusters, dispatches each cluster's distance    *)
(* matrix to solve_tsp_ortools (when the OR-Tools import succeeded) or to  *)
(* nearest_neighbor_tsp, appends one route per cluster and prints the      *)
(* response.  The model follows the interpreter through the three          *)
(* functions: one action per block of straight-line code, the locals of    *)
(* the active call as variables (reset when the frame is left).            *)
(*                                                                         *)
(* Python lists are TLA+ sequences; list index i is sequence index i + 1.  *)
(* Node indices, start, best_next, ... keep their 0-based Python values.   *)
(***************************************************************************)
EXTENDS Integers, Sequences, FiniteSets, TLC

VARIABLES
    HAS_ORTOOLS,     \* module global, set by the import at lines 34-38
    data,            \* the parsed request read from stdin
    clusters,        \* main: data.get("clusters", [])
    ci,              \* main: 0-based position of the for loop over clusters
    routes,          \* main: the routes list
    output,          \* what was printed to stdout (NoOutput until printed)
    err,             \* the uncaught exception that ended the run, or "none"
    pc,              \* the block of code about to run
    matrix,          \* distance_matrix argument of the active call
    aug_matrix,      \* solve_tsp_ortools: augmented matrix
    solution,        \* solve_tsp_ortools: the solver's tour, or NoSolution
    start,           \* nearest_neighbor_tsp: outer loop variable
    step,            \* nearest_neighbor_tsp: iterations done of the inner for _ loop
    visited,         \* nearest_neighbor_tsp: visited flags
    order,           \* nearest_neighbor_tsp: path under construction
    total_distance,  \* nearest_neighbor_tsp: cost of the path under construction
    best_order,      \* nearest_neighbor_tsp: best path so far, or None
    best_total,      \* nearest_neighbor_tsp: cost of the best path so far
    ret,             \* the (order, total) pair returned to main
    nn_log           \* history: every completed nearest_neighbor_tsp call

vars == << HAS_ORTOOLS, data, clusters, ci, routes, output, err, pc, matrix,
           aug_matrix, solution, start, step, visited, order, total_distance,
           best_order, best_total, ret, nn_log >>

-----------------------------------------------------------------------------
(* Bounds of the model *)

\* largest matrix dimension enumerated exhaustively
MaxN == 3
\* largest distance value enumerated exhaustively
MaxDist == 2
\* longest batch
MaxClusters == 2
\* most matrices of one size the exhaustive enumeration may hold (diagonals
\* apart): the distance values of a size are cut down until it is respected
MaxMatrices == 4096

-----------------------------------------------------------------------------
(* Python values *)

\* float("inf"): above every total a bounded input can produce
Inf == 1000000
\* None, as the value of best_order (no path kept yet)
None == << -1 >>
\* None, as the value of solution (SolveWithParameters found nothing)
NoSolution == << >>
\* nothing printed yet
NoOutput == [routes |-> << >>, solver |-> "(nothing printed)"]
\* no value returned yet
NoRet == [order |-> << >>, total |-> 0]

\* a variant that counts from 1
RangeFromOne(n) == [k \in 1..n |-> k]
\* list(range(n))
Range(n) == [k \in 1..n |-> k - 1]

\* lst[i] with a 0-based index
At(lst, i) == lst[i + 1]

\* whether lst[i] raises IndexError (indices here are never negative)
OutOfRange(lst, i) == i >= Len(lst)

\* whether d[key] raises KeyError
MissingKey(d, key) == key \notin DOMAIN d

-----------------------------------------------------------------------------
(* Inputs *)

OffDiag(n) == { p \in (1..n) \X (1..n) : p[1] # p[2] }

\* the largest distance value v <= MaxDist for which the n x n matrices with
\* off-diagonal entries in 0..v number at most MaxMatrices
TopDist(n) ==
    LET fits(v) == (v + 1) ^ (n * (n - 1)) <= MaxMatrices
    IN  CHOOSE v \in 0..MaxDist :
            fits(v) /\ \A w \in 0..MaxDist : fits(w) => w <= v

\* every n x n matrix with off-diagonal entries in 0..TopDist(n) and a
\* uniform diagonal of 0 or MaxDist
SquareMatrices(n) ==
    { [i \in 1..n |-> [j \in 1..n |-> IF i = j THEN d ELSE f[<< i, j >>]]] :
        f \in [OffDiag(n) -> 0..TopDist(n)], d \in {0, MaxDist} }

ValidMatrices == UNION { SquareMatrices(n) : n \in 0..MaxN }

\* len(matrix) == len(row) for every row
IsSquare(m) == \A i \in 1..Len(m) : Len(m[i]) = Len(m)

\* no negative entry
IsNonNegative(m) == \A i \in 1..Len(m) : \A j \in 1..Len(m[i]) : m[i][j] >= 0

IsValid(m) == IsSquare(m) /\ IsNonNegative(m)

\* the matrices batches are drawn from: the degenerate sizes, the n = 2
\* scenario of the specification, an asymmetric pair, 3-node matrices with
\* and without ties, and malformed matrices (rows too long, rows too short,
\* a negative entry)
PoolMatrices ==
    { << >>,
      << << 5 >> >>,
      << << 0, 7 >>, << 7, 0 >> >>,
      << << 0, 7 >>, << 3, 0 >> >>,
      << << 0, 2, 1 >>, << 2, 0, 2 >>, << 4, 1, 0 >> >>,
      << << 0, 7, 9 >>, << 7, 0 >> >>,
      << << 0, 1 >>, << 5 >> >>,
      << << 0 >>, << 5, 0 >> >>,
      << << 0, -2 >>, << 4, 0 >> >> }

ClusterIds == {3, 8}

Cluster(id, m) == [clusterId |-> id, distanceMatrix |-> m]

\* a valid 3-node matrix, used for the clusters that carry voterIds
SampleMatrix == << << 0, 2, 1 >>, << 2, 0, 2 >>, << 4, 1, 0 >> >>

\* clusters with the optional voterIds field, in two different contents
VoterClusters ==
    { [clusterId |-> 3, distanceMatrix |-> SampleMatrix, voterIds |-> v] :
        v \in { << "voter-1", "voter-2", "voter-3" >>,
                << "voter-9", "voter-9", "voter-9" >> } }

\* clusters that lack a required field
PartialClusters ==
    { [distanceMatrix |-> << << 0, 7 >>, << 7, 0 >> >>], [clusterId |-> 3] }

\* both required fields are there and the matrix is square and non-negative
ClusterIsValid(c) ==
    /\ "clusterId" \in DOMAIN c
    /\ "distanceMatrix" \in DOMAIN c
    /\ IsValid(c.distanceMatrix)

PoolClusters ==
    { Cluster(id, m) : id \in ClusterIds, m \in PoolMatrices }
        \cup VoterClusters \cup PartialClusters

\* the 4-node scenario of the specification
ScenarioMatrix ==
    << << 0, 10, 15, 20 >>, << 10, 0, 35, 25 >>,
       << 15, 35, 0, 30 >>, << 20, 25, 30, 0 >> >>

RECURSIVE SeqsUpTo(_, _)
SeqsUpTo(S, k) ==
    IF k = 0 THEN { << >> }
    ELSE LET shorter == SeqsUpTo(S, k - 1)
         IN  shorter \cup { Append(s, x) : s \in { t \in shorter : Len(t) = k - 1 }, x \in S }

Batches == SeqsUpTo(PoolClusters, MaxClusters)


Requests == { [clusters |-> b] : b \in Batches } \cup { [voters |-> << >>] }

-----------------------------------------------------------------------------
(* solve_tsp_ortools: the pieces of straight-line code *)

\* a variant whose edges to and from the dummy node cost 1
AugMatrixUnitDummy(m) ==
    LET n == Len(m)
    IN  [i \in 1..(n + 1) |->
            IF i <= n THEN Append(m[i], 1)
            ELSE [j \in 1..(n + 1) |-> IF j <= n THEN 1 ELSE 0]]
\* lines 55-60: every row gets a trailing 0, then a row of n + 1 zeros
AugMatrix(m) ==
    LET n == Len(m)
    IN  [i \in 1..(n + 1) |->
            IF i <= n THEN Append(m[i], 0) ELSE [j \in 1..(n + 1) |-> 0]]

RECURSIVE Perms(_)
\* every ordering of the nodes in S
Perms(S) ==
    IF S = {} THEN { << >> }
    ELSE UNION { { << x >> \o p : p \in Perms(S \ {x}) } : x \in S }

\* a variant whose depot is node 0: the walk starts there and meets the
\* dummy node n among the others
ClosedToursFromZero(n) == { << 0 >> \o p : p \in Perms(1..n) }

\* lines 62-90: what the routing solver can hand back for n real nodes and
\* the depot n: the depot first (routing.Start(0)), then every real node
\* once, in any order; IsEnd stops the walk before the closing depot
ClosedTours(n) == { << n >> \o p : p \in Perms(0..(n - 1)) }

\* a variant that forgets to strip the depot
KeepDummy(full_tour, n) == full_tour
\* line 93: order = [node for node in full_tour if node != n]
StripDummy(full_tour, n) == SelectSeq(full_tour, LAMBDA node : node # n)

RECURSIVE PathRaises(_, _, _)
\* lines 96-97: whether distance_matrix[order[i]][order[i + 1]] raises
\* IndexError for some i >= k
PathRaises(m, ord, k) ==
    IF k >= Len(ord) - 1 THEN FALSE
    ELSE \/ OutOfRange(m, At(ord, k))
         \/ OutOfRange(At(m, At(ord, k)), At(ord, k + 1))
         \/ PathRaises(m, ord, k + 1)

RECURSIVE PathCost(_, _, _)
\* lines 95-97: the sum of distance_matrix[order[i]][order[i + 1]], i >= k
PathCost(m, ord, k) ==
    IF k >= Len(ord) - 1 THEN 0
    ELSE At(At(m, At(ord, k)), At(ord, k + 1)) + PathCost(m, ord, k + 1)

\* a variant whose loop stops one edge early
RecomputeShort(m, ord) == PathCost(m, SubSeq(ord, 1, Len(ord) - 1), 0)
\* lines 95-97: total_distance of the stripped order
Recompute(m, ord) == PathCost(m, ord, 0)

-----------------------------------------------------------------------------
(* nearest_neighbor_tsp: the pieces of straight-line code *)

RECURSIVE ScanLastMin(_, _, _, _, _, _)
\* a variant of the scan that compares with <=, so the last minimum wins
ScanLastMin(m, current, vis, j, best_next, best_dist) ==
    IF j = Len(m)
    THEN [best_next |-> best_next, best_dist |-> best_dist, raised |-> FALSE]
    ELSE IF At(vis, j)
    THEN ScanLastMin(m, current, vis, j + 1, best_next, best_dist)
    ELSE IF OutOfRange(At(m, current), j)
    THEN [best_next |-> best_next, best_dist |-> best_dist, raised |-> TRUE]
    ELSE IF At(At(m, current), j) <= best_dist
    THEN ScanLastMin(m, current, vis, j + 1, j, At(At(m, current), j))
    ELSE ScanLastMin(m, current, vis, j + 1, best_next, best_dist)

RECURSIVE ScanWithSelf(_, _, _, _, _, _)
\* a variant of the scan that skips the visited nodes other than the current
\* one, so the diagonal entry of the current node takes part
ScanWithSelf(m, current, vis, j, best_next, best_dist) ==
    IF j = Len(m)
    THEN [best_next |-> best_next, best_dist |-> best_dist, raised |-> FALSE]
    ELSE IF At(vis, j) /\ j # current
    THEN ScanWithSelf(m, current, vis, j + 1, best_next, best_dist)
    ELSE IF OutOfRange(At(m, current), j)
    THEN [best_next |-> best_next, best_dist |-> best_dist, raised |-> TRUE]
    ELSE IF At(At(m, current), j) < best_dist
    THEN ScanWithSelf(m, current, vis, j + 1, j, At(At(m, current), j))
    ELSE ScanWithSelf(m, current, vis, j + 1, best_next, best_dist)

RECURSIVE Scan(_, _, _, _, _, _)
\* lines 128-131: for j in range(n) from j on; raised when
\* distance_matrix[current][j] is read past the end of the row
Scan(m, current, vis, j, best_next, best_dist) ==
    IF j = Len(m)
    THEN [best_next |-> best_next, best_dist |-> best_dist, raised |-> FALSE]
    ELSE IF At(vis, j)
    THEN Scan(m, current, vis, j + 1, best_next, best_dist)
    ELSE IF OutOfRange(At(m, current), j)
    THEN [best_next |-> best_next, best_dist |-> best_dist, raised |-> TRUE]
    ELSE IF At(At(m, current), j) < best_dist
    THEN Scan(m, current, vis, j + 1, j, At(At(m, current), j))
    ELSE Scan(m, current, vis, j + 1, best_next, best_dist)

\* a variant whose best_dist starts at 0 instead of infinity
ScanBestNextFromZero(m, current, vis) == Scan(m, current, vis, 0, -1, 0)
\* lines 126-131: best_next = -1, best_dist = inf, then the scan
ScanBestNext(m, current, vis) == Scan(m, current, vis, 0, -1, Inf)

\* a best_total kept between calls instead of being set anew
CarriedBestTotal ==
    IF nn_log = << >> THEN Inf ELSE nn_log[Len(nn_log)].total
\* line 116: best_total = float("inf")
InitialBestTotal == Inf

\* a variant that forgets to mark the node
LeaveUnvisited(vis, node) == vis
\* lines 121 and 135: visited[node] = True
MarkVisited(vis, node) == [vis EXCEPT ![node + 1] = TRUE]

\* a variant that adds nothing for the last edge of a path
AddAllButLast(total, best_dist, ord, n) ==
    IF Len(ord) = n - 1 THEN total ELSE total + best_dist
\* line 136: total_distance += best_dist
AddEdge(total, best_dist, ord, n) == total + best_dist

RECURSIVE GreedyPath(_, _, _, _, _)
\* lines 124-136 as a function: the path grown from ord by `left` more
\* iterations of the inner loop
GreedyPath(m, ord, vis, total, left) ==
    IF left = 0 THEN [order |-> ord, total |-> total]
    ELSE LET found == ScanBestNext(m, At(ord, Len(ord) - 1), vis)
         IN  IF found.raised \/ found.best_next = -1
             THEN [order |-> ord, total |-> total]
             ELSE GreedyPath(m, Append(ord, found.best_next),
                             MarkVisited(vis, found.best_next),
                             AddEdge(total, found.best_dist, ord, Len(m)),
                             left - 1)

\* lines 119-136 as a function: the greedy path of one start node
GreedyFromStart(m, s) ==
    GreedyPath(m, << s >>, MarkVisited([k \in 1..Len(m) |-> FALSE], s), 0,
               Len(m) - 1)

RECURSIVE BestOfStarts(_, _, _, _)
\* lines 118-140 as a function: the starts from s on, given the best so far
BestOfStarts(m, s, bestOrd, bestTot) ==
    IF s = Len(m) THEN [order |-> bestOrd, total |-> bestTot]
    ELSE LET path == GreedyFromStart(m, s)
         IN  IF path.total < bestTot
             THEN BestOfStarts(m, s + 1, path.order, path.total)
             ELSE BestOfStarts(m, s + 1, bestOrd, bestTot)

\* lines 105-142 as a function of the matrix alone: what one call returns
\* when nothing else has run
nearest_neighbor_tsp(m) ==
    IF Len(m) <= 1 THEN [order |-> Range(Len(m)), total |-> 0]
    ELSE BestOfStarts(m, 0, None, Inf)

-----------------------------------------------------------------------------
(* main: the pieces of straight-line code *)

\* a variant with the labels of the response schema
SchemaLabel == IF HAS_ORTOOLS THEN "exact" ELSE "heuristic"
\* a variant that reports the fallback as soon as one cluster was solved by it
OutcomeLabel ==
    IF HAS_ORTOOLS /\ nn_log = << >> THEN "ortools" ELSE "nearest_neighbor"
\* line 167: "ortools" if HAS_ORTOOLS else "nearest_neighbor"
SolverLabel == IF HAS_ORTOOLS THEN "ortools" ELSE "nearest_neighbor"

\* a variant that puts the new route first
PrependRoute(rs, cluster, r) ==
    << [clusterId |-> cluster.clusterId, orderedIndices |-> r.order,
        totalDistance |-> r.total] >> \o rs
\* a variant that copies voterIds into the route when the cluster has them
AppendRouteEcho(rs, cluster, r) ==
    Append(rs, IF MissingKey(cluster, "voterIds")
               THEN [clusterId |-> cluster.clusterId,
                     orderedIndices |-> r.order, totalDistance |-> r.total]
               ELSE [clusterId |-> cluster.clusterId,
                     orderedIndices |-> r.order, totalDistance |-> r.total,
                     voterIds |-> cluster.voterIds])
\* lines 159-163: routes.append({...})
AppendRoute(rs, cluster, r) ==
    Append(rs, [clusterId |-> cluster.clusterId, orderedIndices |-> r.order,
                totalDistance |-> r.total])

-----------------------------------------------------------------------------
(* Frames *)

\* the locals of solve_tsp_ortools and nearest_neighbor_tsp outside a call
NoLocals ==
    /\ aug_matrix' = << >>
    /\ solution' = NoSolution
    /\ start' = 0
    /\ step' = 0
    /\ visited' = << >>
    /\ order' = << >>
    /\ total_distance' = 0
    /\ best_order' = None
    /\ best_total' = Inf

\* return (ord, total) to the caller's "order, total_dist = ..." in main
Return(ord, total) ==
    /\ ret' = [order |-> ord, total |-> total]
    /\ pc' = "append"
    /\ NoLocals
    /\ UNCHANGED << HAS_ORTOOLS, data, clusters, ci, routes, output, err, matrix >>

\* a variant that notes the exception, drops the cluster and goes on with
\* the next one
RaiseAndSkip(e) ==
    /\ err' = e
    /\ pc' = "loop"
    /\ ci' = ci + 1
    /\ NoLocals
    /\ UNCHANGED << HAS_ORTOOLS, data, clusters, routes, output, matrix, ret,
                    nn_log >>

\* an exception nobody catches: the traceback goes to stderr, nothing is
\* printed to stdout, the interpreter exits with status 1
Raise(e) ==
    /\ err' = e
    /\ pc' = "crashed"
    /\ NoLocals
    /\ UNCHANGED << HAS_ORTOOLS, data, clusters, ci, routes, output, matrix, ret,
                    nn_log >>

-----------------------------------------------------------------------------
(* main *)

\* lines 146-151
MainRead ==
    /\ pc = "read"
    /\ clusters' = IF "clusters" \in DOMAIN data THEN data.clusters ELSE << >>
    /\ routes' = << >>
    /\ ci' = 0
    /\ pc' = "loop"
    /\ UNCHANGED << HAS_ORTOOLS, data, output, err, matrix, aug_matrix, solution,
                    start, step, visited, order, total_distance, best_order,
                    best_total, ret, nn_log >>

\* a variant that decides per cluster, keeping the engine for n >= 3
BackendBySize(m) ==
    IF HAS_ORTOOLS /\ Len(m) >= 3 THEN "ort_entry" ELSE "nn_entry"
\* lines 154-157: the function main calls with the matrix m
Backend(m) == IF HAS_ORTOOLS THEN "ort_entry" ELSE "nn_entry"

\* lines 152-157: the next cluster's matrix goes to the backend
MainDispatch ==
    /\ pc = "loop"
    /\ ci < Len(clusters)
    /\ IF MissingKey(At(clusters, ci), "distanceMatrix")
       THEN Raise("KeyError")
       ELSE /\ matrix' = At(clusters, ci).distanceMatrix
            /\ pc' = Backend(matrix')
            /\ UNCHANGED << HAS_ORTOOLS, data, clusters, ci, routes, output, err,
                            aug_matrix, solution, start, step, visited, order,
                            total_distance, best_order, best_total, ret, nn_log >>

\* a variant that reads the id with cluster.get("clusterId", -1)
MainAppendDefaultId ==
    /\ pc = "append"
    /\ routes' = Append(routes,
                    [clusterId |-> IF MissingKey(At(clusters, ci), "clusterId")
                                   THEN -1 ELSE At(clusters, ci).clusterId,
                     orderedIndices |-> ret.order, totalDistance |-> ret.total])
    /\ ci' = ci + 1
    /\ pc' = "loop"
    /\ UNCHANGED << HAS_ORTOOLS, data, clusters, output, err, matrix,
                    aug_matrix, solution, start, step, visited, order,
                    total_distance, best_order, best_total, ret, nn_log >>

\* lines 159-163
MainAppend ==
    /\ pc = "append"
    /\ IF MissingKey(At(clusters, ci), "clusterId")
       THEN Raise("KeyError")
       ELSE /\ routes' = AppendRoute(routes, At(clusters, ci), ret)
            /\ ci' = ci + 1
            /\ pc' = "loop"
            /\ UNCHANGED << HAS_ORTOOLS, data, clusters, output, err, matrix,
                            aug_matrix, solution, start, step, visited, order,
                            total_distance, best_order, best_total, ret, nn_log >>

\* lines 165-170: the loop is over, the response is printed
MainEmit ==
    /\ pc = "loop"
    /\ ci = Len(clusters)
    /\ output' = [routes |-> routes, solver |-> SolverLabel]
    /\ pc' = "done"
    /\ UNCHANGED << HAS_ORTOOLS, data, clusters, ci, routes, err, matrix,
                    aug_matrix, solution, start, step, visited, order,
                    total_distance, best_order, best_total, ret, nn_log >>

-----------------------------------------------------------------------------
(* solve_tsp_ortools *)

\* a variant that builds the augmented rows in place: row.append(0) on the
\* caller's rows
OrtEntryInPlace ==
    /\ pc = "ort_entry"
    /\ Len(matrix) >= 3
    /\ matrix' = [i \in 1..Len(matrix) |-> Append(matrix[i], 0)]
    /\ aug_matrix' = AugMatrix(matrix)
    /\ pc' = "ort_solve"
    /\ UNCHANGED << HAS_ORTOOLS, data, clusters, ci, routes, output, err,
                    solution, start, step, visited, order, total_distance,
                    best_order, best_total, ret, nn_log >>

\* lines 48-60: the degenerate sizes return at once; otherwise the augmented
\* matrix is built
OrtEntry ==
    /\ pc = "ort_entry"
    /\ LET n == Len(matrix)
       IN  IF n <= 1 THEN Return(Range(n), 0) /\ UNCHANGED nn_log
           ELSE IF n = 2 THEN
               IF OutOfRange(At(matrix, 0), 1)
               THEN Raise("IndexError")
               ELSE Return(<< 0, 1 >>, At(At(matrix, 0), 1)) /\ UNCHANGED nn_log
           ELSE /\ aug_matrix' = AugMatrix(matrix)
                /\ pc' = "ort_solve"
                /\ UNCHANGED << HAS_ORTOOLS, data, clusters, ci, routes, output,
                                err, matrix, solution, start, step, visited,
                                order, total_distance, best_order, best_total,
                                ret, nn_log >>

\* lines 62-82, the solver found a tour
OrtSolveFound ==
    /\ pc = "ort_solve"
    /\ \E tour \in ClosedTours(Len(matrix)) : solution' = tour
    /\ pc' = "ort_solved"
    /\ UNCHANGED << HAS_ORTOOLS, data, clusters, ci, routes, output, err, matrix,
                    aug_matrix, start, step, visited, order, total_distance,
                    best_order, best_total, ret, nn_log >>

\* lines 62-82, the solver found nothing within its time limit
OrtSolveNone ==
    /\ pc = "ort_solve"
    /\ solution' = NoSolution
    /\ pc' = "ort_solved"
    /\ UNCHANGED << HAS_ORTOOLS, data, clusters, ci, routes, output, err, matrix,
                    aug_matrix, start, step, visited, order, total_distance,
                    best_order, best_total, ret, nn_log >>

\* lines 84-99: walk the tour, strip the depot, recompute the cost
OrtExtract ==
    /\ pc = "ort_solved"
    /\ solution # NoSolution
    /\ LET ord == StripDummy(solution, Len(matrix))
       IN  IF PathRaises(matrix, ord, 0)
           THEN Raise("IndexError")
           ELSE Return(ord, Recompute(matrix, ord)) /\ UNCHANGED nn_log

\* a variant that raises when the solver found nothing
OrtGiveUp ==
    /\ pc = "ort_solved"
    /\ solution = NoSolution
    /\ Raise("RuntimeError")

\* a variant that hands the augmented matrix to the fallback
OrtFallbackAugmented ==
    /\ pc = "ort_solved"
    /\ solution = NoSolution
    /\ pc' = "nn_entry"
    /\ matrix' = aug_matrix
    /\ aug_matrix' = << >>
    /\ UNCHANGED << HAS_ORTOOLS, data, clusters, ci, routes, output, err,
                    solution, start, step, visited, order, total_distance,
                    best_order, best_total, ret, nn_log >>

\* lines 101-102: return nearest_neighbor_tsp(distance_matrix)
OrtFallback ==
    /\ pc = "ort_solved"
    /\ solution = NoSolution
    /\ pc' = "nn_entry"
    /\ aug_matrix' = << >>
    /\ UNCHANGED << HAS_ORTOOLS, data, clusters, ci, routes, output, err, matrix,
                    solution, start, step, visited, order, total_distance,
                    best_order, best_total, ret, nn_log >>

-----------------------------------------------------------------------------
(* nearest_neighbor_tsp *)

\* the return of a nearest_neighbor_tsp call, noted in the history
NNReturn(ord, total) ==
    /\ Return(ord, total)
    /\ nn_log' = Append(nn_log, [cluster |-> ci, matrix |-> matrix,
                                 order |-> ord, total |-> total])

\* lines 111-116
NNEntry ==
    /\ pc = "nn_entry"
    /\ LET n == Len(matrix)
       IN  IF n <= 1 THEN NNReturn(Range(n), 0)
           ELSE /\ best_order' = None
                /\ best_total' = InitialBestTotal
                /\ start' = 0
                /\ pc' = "nn_start"
                /\ UNCHANGED << HAS_ORTOOLS, data, clusters, ci, routes, output,
                                err, matrix, aug_matrix, solution, step, visited,
                                order, total_distance, ret, nn_log >>

\* lines 118-122: the next start node
NNStart ==
    /\ pc = "nn_start"
    /\ start < Len(matrix)
    /\ visited' = MarkVisited([k \in 1..Len(matrix) |-> FALSE], start)
    /\ order' = << start >>
    /\ total_distance' = 0
    /\ step' = 0
    /\ pc' = "nn_step"
    /\ UNCHANGED << HAS_ORTOOLS, data, clusters, ci, routes, output, err, matrix,
                    aug_matrix, solution, start, best_order, best_total, ret,
                    nn_log >>

\* lines 124-136: one iteration of for _ in range(n - 1)
NNStep ==
    /\ pc = "nn_step"
    /\ step < Len(matrix) - 1
    /\ LET current == At(order, Len(order) - 1)
           found == ScanBestNext(matrix, current, visited)
       IN  IF found.raised THEN Raise("IndexError")
           ELSE IF found.best_next = -1
           THEN /\ pc' = "nn_end"
                /\ UNCHANGED << HAS_ORTOOLS, data, clusters, ci, routes, output,
                                err, matrix, aug_matrix, solution, start, step,
                                visited, order, total_distance, best_order,
                                best_total, ret, nn_log >>
           ELSE /\ order' = Append(order, found.best_next)
                /\ visited' = MarkVisited(visited, found.best_next)
                /\ total_distance' =
                       AddEdge(total_distance, found.best_dist, order, Len(matrix))
                /\ step' = step + 1
                /\ pc' = IF step + 1 < Len(matrix) - 1 THEN "nn_step" ELSE "nn_end"
                /\ UNCHANGED << HAS_ORTOOLS, data, clusters, ci, routes, output,
                                err, matrix, aug_matrix, solution, start,
                                best_order, best_total, ret, nn_log >>

\* a variant that keeps the path of the first start whatever the later
\* starts cost
NNEndKeepFirst ==
    /\ pc = "nn_end"
    /\ IF best_order = None
       THEN best_total' = total_distance /\ best_order' = order
       ELSE UNCHANGED << best_total, best_order >>
    /\ start' = start + 1
    /\ pc' = "nn_start"
    /\ UNCHANGED << HAS_ORTOOLS, data, clusters, ci, routes, output, err, matrix,
                    aug_matrix, solution, step, visited, order, total_distance,
                    ret, nn_log >>

\* a variant that compares with <=, so the last of the cheapest starts wins
NNEndLastWins ==
    /\ pc = "nn_end"
    /\ IF total_distance <= best_total
       THEN best_total' = total_distance /\ best_order' = order
       ELSE UNCHANGED << best_total, best_order >>
    /\ start' = start + 1
    /\ pc' = "nn_start"
    /\ UNCHANGED << HAS_ORTOOLS, data, clusters, ci, routes, output, err, matrix,
                    aug_matrix, solution, step, visited, order, total_distance,
                    ret, nn_log >>

\* lines 138-140, and on to the next start
NNEnd ==
    /\ pc = "nn_end"
    /\ IF total_distance < best_total
       THEN best_total' = total_distance /\ best_order' = order
       ELSE UNCHANGED << best_total, best_order >>
    /\ start' = start + 1
    /\ pc' = "nn_start"
    /\ UNCHANGED << HAS_ORTOOLS, data, clusters, ci, routes, output, err, matrix,
                    aug_matrix, solution, step, visited, order, total_distance,
                    ret, nn_log >>

\* a variant that returns the total of the last start with the best order
NNDoneLastTotal ==
    /\ pc = "nn_start"
    /\ start = Len(matrix)
    /\ NNReturn(best_order, total_distance)

\* line 142, after the last start
NNDone ==
    /\ pc = "nn_start"
    /\ start = Len(matrix)
    /\ NNReturn(best_order, best_total)

-----------------------------------------------------------------------------
(* Specifications *)

InitState ==
    /\ HAS_ORTOOLS \in BOOLEAN
    /\ clusters = << >>
    /\ ci = 0
    /\ routes = << >>
    /\ output = NoOutput
    /\ err = "none"
    /\ pc = "read"
    /\ matrix = << >>
    /\ aug_matrix = << >>
    /\ solution = NoSolution
    /\ start = 0
    /\ step = 0
    /\ visited = << >>
    /\ order = << >>
    /\ total_distance = 0
    /\ best_order = None
    /\ best_total = Inf
    /\ ret = NoRet
    /\ nn_log = << >>

\* a batch request of up to MaxClusters clusters from the pool, or a request
\* without the clusters key
Init == data \in Requests /\ InitState

\* a request holding one cluster, whose matrix is any valid matrix within
\* the bounds or the 4-node scenario (the id plays no part in solving: one
\* id is enough here, batches of Init mix them)
InitSolve ==
    /\ data \in { [clusters |-> << Cluster(3, m) >>] :
                    m \in ValidMatrices \cup { ScenarioMatrix } }
    /\ InitState

Next ==
    \/ MainRead
    \/ MainDispatch
    \/ MainAppend
    \/ MainEmit
    \/ OrtEntry
    \/ OrtSolveFound
    \/ OrtSolveNone
    \/ OrtExtract
    \/ OrtFallback
    \/ NNEntry
    \/ NNStart
    \/ NNStep
    \/ NNEnd
    \/ NNDone

Spec == Init /\ [][Next]_vars

SpecSolve == InitSolve /\ [][Next]_vars

\* the interpreter keeps running the program: a step that can be taken is
\* taken (the solver itself returns within its time limit, line 80)
SpecLive == Init /\ [][Next]_vars /\ WF_vars(Next)

-----------------------------------------------------------------------------
(* Vocabulary of the properties *)

\* the matrix of the cluster that produced the i-th route (1-based)
RouteMatrix(i) == clusters[i].distanceMatrix

\* ord holds each of 0..n-1 exactly once and nothing else
IsPermutation(ord, n) ==
    /\ Len(ord) = n
    /\ \A k \in 1..Len(ord) : ord[k] \in 0..(n - 1)
    /\ \A k1, k2 \in 1..Len(ord) : ord[k1] = ord[k2] => k1 = k2

RECURSIVE EdgeSumFrom(_, _, _)
EdgeSumFrom(m, ord, k) ==
    IF k >= Len(ord) THEN 0
    ELSE m[ord[k] + 1][ord[k + 1] + 1] + EdgeSumFrom(m, ord, k + 1)

\* the sum of m[ord[k]][ord[k+1]] over consecutive positions of ord
EdgeSum(m, ord) == EdgeSumFrom(m, ord, 1)

\* the brute-force optimum: the cheapest open path over all permutations
OptimalCost(m) ==
    LET costs == { EdgeSum(m, p) : p \in Perms(0..(Len(m) - 1)) }
    IN  CHOOSE c \in costs : \A d \in costs : c <= d

-----------------------------------------------------------------------------
(* Properties *)

\* C1: for a square matrix of size n with non-negative entries, the
\* orderedIndices of the cluster's route holds each of 0..n-1 exactly once:
\* length n, no duplicate, no value out of range (never the dummy index n),
\* whichever backend produced it.
C1_OrderIsPermutation ==
    \A i \in 1..Len(routes) :
        IsValid(RouteMatrix(i)) =>
            IsPermutation(routes[i].orderedIndices, Len(RouteMatrix(i)))

\* a route for a 3-node matrix came out of the solver's tour, in an order
\* other than 0, 1, 2
C1_Witness ==
    /\ HAS_ORTOOLS
    /\ nn_log = << >>
    /\ \E i \in 1..Len(routes) :
        /\ Len(RouteMatrix(i)) = 3
        /\ routes[i].orderedIndices = << 2, 0, 1 >>

\* C2: for a valid integer matrix the route's totalDistance is exactly the
\* sum of matrix[order[k]][order[k+1]] along its orderedIndices, taken on
\* the original matrix, and 0 when n <= 1.
C2_TotalIsEdgeSum ==
    \A i \in 1..Len(routes) :
        IsValid(RouteMatrix(i)) =>
            /\ routes[i].totalDistance =
                   EdgeSum(RouteMatrix(i), routes[i].orderedIndices)
            /\ Len(RouteMatrix(i)) <= 1 => routes[i].totalDistance = 0

\* a 3-node route with two edges of different positive costs, from the
\* solver's tour
C2_Witness ==
    /\ HAS_ORTOOLS
    /\ nn_log = << >>
    /\ \E i \in 1..Len(routes) :
        /\ Len(RouteMatrix(i)) = 3
        /\ routes[i].orderedIndices = << 1, 2, 0 >>
        /\ RouteMatrix(i)[2][3] = 1
        /\ RouteMatrix(i)[3][1] = 2
        /\ routes[i].totalDistance = 3

\* C3: for any matrix with n = 2 the route is [0, 1] with distance
\* matrix[0][1], whichever backend handled the cluster, symmetric or not.
C3_PairIsZeroOne ==
    \A i \in 1..Len(routes) :
        (IsValid(RouteMatrix(i)) /\ Len(RouteMatrix(i)) = 2) =>
            /\ routes[i].orderedIndices = << 0, 1 >>
            /\ routes[i].totalDistance = RouteMatrix(i)[1][2]

\* C4: n = 0 gives the empty order with distance 0 and n = 1 gives [0] with
\* distance 0, under both backends, whatever the diagonal holds.
C4_DegenerateSizes ==
    \A i \in 1..Len(routes) :
        /\ Len(RouteMatrix(i)) = 0 =>
               routes[i].orderedIndices = << >> /\ routes[i].totalDistance = 0
        /\ Len(RouteMatrix(i)) = 1 =>
               routes[i].orderedIndices = << 0 >> /\ routes[i].totalDistance = 0

\* a route for a 1 x 1 matrix with a non-zero diagonal, from the fallback
C4_Witness ==
    /\ ~HAS_ORTOOLS
    /\ \E i \in 1..Len(routes) :
        /\ Len(RouteMatrix(i)) = 1
        /\ RouteMatrix(i)[1][1] # 0

\* C5: for a batch of k clusters with valid matrices the response holds
\* exactly k routes and the i-th route carries the clusterId of the i-th
\* input cluster, whatever the solver did for each cluster.
C5_RoutesFollowInput ==
    (/\ pc = "done"
     /\ "clusters" \in DOMAIN data
     /\ \A i \in 1..Len(data.clusters) : ClusterIsValid(data.clusters[i]))
    => /\ Len(output.routes) = Len(data.clusters)
       /\ \A i \in 1..Len(output.routes) :
              output.routes[i].clusterId = data.clusters[i].clusterId

\* a response for two valid clusters with different ids, the second id the
\* smaller one, one of them solved by the fallback after the solver gave up
C5_Witness ==
    /\ pc = "done"
    /\ HAS_ORTOOLS
    /\ Len(nn_log) = 1
    /\ Len(output.routes) = 2
    /\ \A i \in 1..2 : ClusterIsValid(data.clusters[i])
    /\ output.routes[1].clusterId > output.routes[2].clusterId

\* C6: nearest_neighbor_tsp is deterministic: two completed calls on the
\* same matrix, whatever was solved before each, returned the same order
\* and the same cost.
C6_SameMatrixSameResult ==
    \A a, b \in 1..Len(nn_log) :
        nn_log[a].matrix = nn_log[b].matrix =>
            /\ nn_log[a].order = nn_log[b].order
            /\ nn_log[a].total = nn_log[b].total

\* the fallback has run twice on one 3-node matrix
C6_Witness ==
    /\ Len(nn_log) >= 2
    /\ nn_log[1].matrix = nn_log[Len(nn_log)].matrix
    /\ Len(nn_log[1].matrix) = 3

\* C7: for a complete non-negative matrix with n >= 2 the cost returned by
\* nearest_neighbor_tsp is finite and is not below the brute-force optimum
\* over all permutations taken as open paths.
C7_FiniteAndNotBelowOptimum ==
    \A a \in 1..Len(nn_log) :
        (IsValid(nn_log[a].matrix) /\ Len(nn_log[a].matrix) >= 2) =>
            /\ nn_log[a].total < Inf
            /\ nn_log[a].total >= OptimalCost(nn_log[a].matrix)

\* the fallback returned a cost above the optimum for a 3-node matrix
C7_Witness ==
    \E a \in 1..Len(nn_log) :
        /\ Len(nn_log[a].matrix) = 3
        /\ nn_log[a].total > OptimalCost(nn_log[a].matrix)

C9_NonSquareGetsNoRoute ==
    \A i \in 1..Len(routes) : IsSquare(RouteMatrix(i))

\* C10: a cluster whose matrix holds a negative entry is rejected: no route
\* is computed from the negative costs.
C10_NegativeGetsNoRoute ==
    \A i \in 1..Len(routes) : IsNonNegative(RouteMatrix(i))

\* C11: a request without the clusters key ends in an error; it does not
\* produce a normal response with an empty routes list.
C11_MissingClustersGetsNoResponse ==
    MissingKey(data, "clusters") => pc # "done" /\ output = NoOutput

\* the i-th cluster of the batch (1-based) lacks a required field
LacksField(i) ==
    \/ MissingKey(clusters[i], "clusterId")
    \/ MissingKey(clusters[i], "distanceMatrix")

\* C12: when the first unrecoverable error occurs at cluster i the whole
\* batch aborts: nothing is written to the output (not even the routes of
\* clusters 0..i-1, which stay unprinted in the routes list) and no further
\* step is taken, so the clusters after i are never solved.
C12_FirstErrorAbortsBatch ==
    err # "none" =>
        /\ pc = "crashed"
        /\ output = NoOutput
        /\ ci < Len(clusters)
        /\ Len(routes) = ci
        /\ nn_log = << >> \/ nn_log[Len(nn_log)].cluster <= ci
        /\ ~ENABLED Next

\* the second cluster of a batch raised after the first was solved
C12_Witness ==
    /\ pc = "crashed"
    /\ err = "IndexError"
    /\ ci = 1
    /\ Len(routes) = 1
    /\ Len(clusters) = 2

\* C13: a cluster that lacks distanceMatrix or clusterId is fatal: the
\* batch never prints a response, no route is made for that cluster or any
\* later one, and no route carries a missing or defaulted clusterId.
C13_MissingFieldIsFatal ==
    /\ \A i \in 1..Len(routes) : routes[i].clusterId \in ClusterIds
    /\ \A i \in 1..Len(clusters) :
           LacksField(i) => /\ pc # "done"
                            /\ output = NoOutput
                            /\ Len(routes) < i

\* the run ended with KeyError at a cluster without clusterId, after its
\* matrix had been solved
C13_Witness ==
    /\ pc = "crashed"
    /\ err = "KeyError"
    /\ ci < Len(clusters)
    /\ MissingKey(At(clusters, ci), "clusterId")
    /\ ret.order = << 0, 1 >>
    /\ ret.total = 7

\* C14: when the solver reports no solution for a cluster with n >= 3, the
\* adapter returns exactly what nearest_neighbor_tsp returns for the same
\* original matrix, and no error comes of it: the cluster gets a normal route.
C14_NoSolutionGivesFallbackRoute ==
    HAS_ORTOOLS =>
        \A a \in 1..Len(nn_log) :
            LET call == nn_log[a]
                c == At(clusters, call.cluster)
                expected == nearest_neighbor_tsp(c.distanceMatrix)
            IN  /\ Len(c.distanceMatrix) >= 3
                /\ call.matrix = c.distanceMatrix
                /\ err = "none" \/ ci > call.cluster \/ MissingKey(c, "clusterId")
                /\ IF Len(routes) > call.cluster
                   THEN /\ At(routes, call.cluster).orderedIndices = expected.order
                        /\ At(routes, call.cluster).totalDistance = expected.total
                   ELSE /\ ci = call.cluster
                        /\ ret = expected

\* a 3-node cluster got its route from the fallback under the adapter, and
\* the route does not start at node 0
C14_Witness ==
    /\ HAS_ORTOOLS
    /\ Len(nn_log) = 1
    /\ Len(routes) = 1
    /\ Len(RouteMatrix(1)) = 3
    /\ routes[1].orderedIndices[1] # 0

\* C15: backend availability is fixed for the batch: HAS_ORTOOLS never
\* changes, every cluster main dispatches goes to solve_tsp_ortools when it
\* is set and to nearest_neighbor_tsp when it is not, and with the engine
\* unavailable the adapter's code never runs and a batch of valid clusters
\* raises no error.
C15_BackendFixedForBatch ==
    [][ /\ HAS_ORTOOLS' = HAS_ORTOOLS
        /\ (pc = "loop" /\ pc' \notin { "loop", "done", "crashed" }) =>
               pc' = IF HAS_ORTOOLS THEN "ort_entry" ELSE "nn_entry"
        /\ ~HAS_ORTOOLS =>
               /\ pc' \notin { "ort_entry", "ort_solve", "ort_solved" }
               /\ (\A i \in 1..Len(clusters) : ClusterIsValid(clusters[i])) =>
                      err' = "none"
      ]_vars

\* a response for two clusters of sizes 2 and 3, both solved by the
\* fallback because the engine is unavailable
C15_Witness ==
    /\ ~HAS_ORTOOLS
    /\ pc = "done"
    /\ Len(nn_log) = 2
    /\ Len(nn_log[1].matrix) = 2
    /\ Len(nn_log[2].matrix) = 3
    /\ Len(output.routes) = 2

RECURSIVE ArcSumFrom(_, _, _)
ArcSumFrom(m, tour, k) ==
    IF k >= Len(tour) THEN 0
    ELSE m[tour[k] + 1][tour[k + 1] + 1] + ArcSumFrom(m, tour, k + 1)

\* the cost of the closed tour: its arcs, and the arc back to its first node
ClosedCost(m, tour) ==
    ArcSumFrom(m, tour, 1) + m[tour[Len(tour)] + 1][tour[1] + 1]

\* C16: the dummy-node reduction is a cost-preserving bijection: deleting
\* the dummy from a closed tour of the augmented graph that starts at the
\* dummy gives a permutation of 0..n-1 of the same cost, every open path
\* comes from exactly one such tour, and a cheapest closed tour gives a
\* cheapest open path.
C16_ReductionIsCostPreservingBijection ==
    pc = "ort_solve" =>
        LET n == Len(matrix)
            tours == ClosedTours(n)
            open(t) == StripDummy(t, n)
        IN  /\ \A t \in tours :
                   /\ IsPermutation(open(t), n)
                   /\ ClosedCost(aug_matrix, t) = EdgeSum(matrix, open(t))
            /\ \A p \in Perms(0..(n - 1)) :
                   Cardinality({ t \in tours : open(t) = p }) = 1
            /\ \A t \in tours :
                   (\A u \in tours :
                        ClosedCost(aug_matrix, t) <= ClosedCost(aug_matrix, u))
                   => EdgeSum(matrix, open(t)) = OptimalCost(matrix)

\* the 4-node scenario matrix, augmented to 5 nodes, is about to be solved
C16_Witness ==
    /\ pc = "ort_solve"
    /\ matrix = ScenarioMatrix
    /\ Len(aug_matrix) = 5

\* C17: solving never mutates its input: while a call runs, after it has
\* returned and after the augmented matrix was built, the matrix is the one
\* the request gave for the cluster, row for row, and the batch is the one
\* that was read.
C17_InputNotMutated ==
    /\ pc # "read" =>
           clusters = IF MissingKey(data, "clusters") THEN << >> ELSE data.clusters
    /\ pc \in { "ort_entry", "ort_solve", "ort_solved", "nn_entry", "nn_start",
                "nn_step", "nn_end", "append" } =>
           matrix = At(data.clusters, ci).distanceMatrix
    /\ (pc \in { "loop", "done" } /\ ci > 0) =>
           matrix = At(data.clusters, ci - 1).distanceMatrix

\* solve_tsp_ortools has built the augmented matrix of a 3-node matrix, the
\* solver has found a tour and the call has returned
C17_Witness ==
    /\ HAS_ORTOOLS
    /\ pc = "append"
    /\ Len(matrix) = 3
    /\ nn_log = << >>
    /\ Len(ret.order) = 3

\* C18: clusters are solved independently: with the nearest-neighbor
\* backend the route of a cluster, at any position of any batch, is the
\* route nearest_neighbor_tsp gives for the cluster's matrix alone, and it
\* stays so while the clusters after it are solved.
C18_RouteIndependentOfBatch ==
    ~HAS_ORTOOLS =>
        \A i \in 1..Len(routes) :
            LET alone == nearest_neighbor_tsp(RouteMatrix(i))
            IN  /\ routes[i].clusterId = clusters[i].clusterId
                /\ routes[i].orderedIndices = alone.order
                /\ routes[i].totalDistance = alone.total

\* the fallback backend has solved a 3-node cluster after an asymmetric
\* 2-node cluster
C18_Witness ==
    /\ ~HAS_ORTOOLS
    /\ Len(routes) = 2
    /\ Len(RouteMatrix(1)) = 2
    /\ routes[1].orderedIndices = << 1, 0 >>
    /\ Len(RouteMatrix(2)) = 3

\* the cluster without its voterIds
WithoutVoterIds(c) == [clusterId |-> c.clusterId, distanceMatrix |-> c.distanceMatrix]

BatchIsValid ==
    /\ ~MissingKey(data, "clusters")
    /\ \A i \in 1..Len(data.clusters) : ClusterIsValid(data.clusters[i])

\* the number of clusters the request holds
RequestSize == IF MissingKey(data, "clusters") THEN 0 ELSE Len(data.clusters)

\* C20: a solve that finds no solution never stops the batch: for a batch
\* of valid clusters, whatever the solver does for each of them, the driver
\* goes on to the next cluster and in the end prints a response with a
\* route for every cluster.
C20_ValidBatchCompletes ==
    BatchIsValid ~>
        /\ pc = "done"
        /\ err = "none"
        /\ Len(output.routes) = RequestSize

\* a response with two routes was printed after the solver found nothing
\* for the first cluster and a tour for the second
C20_Witness ==
    /\ pc = "done"
    /\ HAS_ORTOOLS
    /\ Len(output.routes) = 2
    /\ Len(RouteMatrix(2)) = 3
    /\ Len(nn_log) = 1
    /\ nn_log[1].cluster = 0

\* the costliest of the greedy paths of the single starts of m
WorstStartCost(m) ==
    LET costs == { GreedyFromStart(m, s).total : s \in 0..(Len(m) - 1) }
    IN  CHOOSE c \in costs : \A d \in costs : d <= c

\* C21: on the 4-node symmetric scenario matrix nearest_neighbor_tsp returns
\* a permutation of 0..3 whose recomputed cost is the returned total, and
\* that cost is neither below the brute-force optimum nor further above it
\* than the costliest single-start greedy path of the instance is.
C21_ScenarioWithinGreedyGap ==
    \A a \in 1..Len(nn_log) :
        LET call == nn_log[a]
        IN  call.matrix = ScenarioMatrix =>
                /\ IsPermutation(call.order, 4)
                /\ EdgeSum(ScenarioMatrix, call.order) = call.total
                /\ call.total >= OptimalCost(ScenarioMatrix)
                /\ call.total - OptimalCost(ScenarioMatrix) <=
                       WorstStartCost(ScenarioMatrix) - OptimalCost(ScenarioMatrix)

\* the call on the scenario matrix has returned the path 2, 0, 1, 3 of cost
\* 50, which is the optimum, while the start at node 0 costs 65
C21_Witness ==
    /\ Len(nn_log) = 1
    /\ nn_log[1].matrix = ScenarioMatrix
    /\ nn_log[1].order = << 2, 0, 1, 3 >>
    /\ nn_log[1].total = 50
    /\ OptimalCost(ScenarioMatrix) = 50
    /\ WorstStartCost(ScenarioMatrix) = 65

\* the nodes of 0..n-1 that are not among the first k nodes of ord
UnvisitedAfter(ord, k, n) == (0..(n - 1)) \ { ord[q] : q \in 1..k }

\* the k-th node of ord (k >= 2) is, among the nodes not visited before it,
\* one of least distance from the node before it, and the lowest-indexed of
\* those
IsGreedyChoice(m, ord, k) ==
    LET current == ord[k - 1]
        chosen == ord[k]
        open == UnvisitedAfter(ord, k - 1, Len(m))
    IN  /\ chosen \in open
        /\ \A j \in open : At(At(m, current), chosen) <= At(At(m, current), j)
        /\ \A j \in open :
               At(At(m, current), j) = At(At(m, current), chosen) => chosen <= j

\* C22: every greedy step of nearest_neighbor_tsp appends an unvisited node
\* of minimum distance from the current node, the lowest-indexed one when
\* several share that minimum: it holds of every node of the path under
\* construction, of the best path kept and of the path returned.
C22_GreedyStepLowestIndexNearest ==
    /\ pc \in { "nn_step", "nn_end" } =>
           /\ Len(order) = step + 1
           /\ \A k \in 2..Len(order) : IsGreedyChoice(matrix, order, k)
           /\ \A j \in 0..(Len(matrix) - 1) :
                  At(visited, j) <=> j \notin UnvisitedAfter(order, Len(order), Len(matrix))
    /\ (pc \in { "nn_start", "nn_step", "nn_end" } /\ best_order # None) =>
           \A k \in 2..Len(best_order) : IsGreedyChoice(matrix, best_order, k)
    /\ \A a \in 1..Len(nn_log) :
           \A k \in 2..Len(nn_log[a].order) :
               IsGreedyChoice(nn_log[a].matrix, nn_log[a].order, k)

\* from node 0 the nodes 1 and 2 are equally far, at a distance above 0: the
\* step has appended node 1
C22_Witness ==
    /\ pc = "nn_step"
    /\ Len(matrix) = 3
    /\ At(At(matrix, 0), 1) = At(At(matrix, 0), 2)
    /\ At(At(matrix, 0), 1) > 0
    /\ order = << 0, 1 >>

RECURSIVE GreedyExtend(_, _)
\* the path p extended to all the nodes of m, each new node being the
\* lowest-indexed of the unvisited nodes nearest to the last one
GreedyExtend(m, p) ==
    IF Len(p) = Len(m) THEN p
    ELSE LET open == UnvisitedAfter(p, Len(p), Len(m))
             from == m[p[Len(p)] + 1]
             next == CHOOSE j \in open :
                         \A i \in open :
                             \/ from[j + 1] < from[i + 1]
                             \/ from[j + 1] = from[i + 1] /\ j <= i
         IN  GreedyExtend(m, Append(p, next))

\* the greedy path of the start s: the one ordering of the nodes that
\* begins with s and makes the greedy choice at every later position
GreedyPathOf(m, s) == GreedyExtend(m, << s >>)

\* the cost of the greedy path of the start s
GreedyCostOf(m, s) == EdgeSum(m, GreedyPathOf(m, s))

\* the least greedy cost over the starts below k (Inf when there is none)
LeastGreedyCost(m, k) ==
    IF k = 0 THEN Inf
    ELSE LET costs == { GreedyCostOf(m, s) : s \in 0..(k - 1) }
         IN  CHOOSE c \in costs : \A d \in costs : c <= d

\* C23: nearest_neighbor_tsp tries every start node 0..n-1: between starts
\* the best total is the least greedy cost of the starts tried so far, the
\* call returns only after start n - 1, its cost is the least greedy cost of
\* all n starts, and its order is the greedy path of a start of that cost
\* and begins with that start.
C23_MultiStartMinimum ==
    /\ pc = "nn_start" =>
           /\ start \in 0..Len(matrix)
           /\ best_total = LeastGreedyCost(matrix, start)
    /\ \A a \in 1..Len(nn_log) :
           LET call == nn_log[a]
               n == Len(call.matrix)
           IN  n >= 2 =>
                   /\ call.total = LeastGreedyCost(call.matrix, n)
                   /\ \E s \in 0..(n - 1) :
                          /\ GreedyCostOf(call.matrix, s) = call.total
                          /\ call.order = GreedyPathOf(call.matrix, s)
                          /\ call.order[1] = s

\* a call on a 3-node matrix has returned the path of the start 2, which is
\* cheaper than the paths of the starts 0 and 1
C23_Witness ==
    /\ Len(nn_log) = 1
    /\ Len(nn_log[1].matrix) = 3
    /\ nn_log[1].order[1] = 2
    /\ GreedyCostOf(nn_log[1].matrix, 0) > nn_log[1].total
    /\ GreedyCostOf(nn_log[1].matrix, 1) > nn_log[1].total

\* the values tried on the diagonal: one below every distance and one above
\* every distance of the enumerated matrices (whose own diagonals are 0 or
\* MaxDist)
DiagValues == { -1, MaxDist + 1 }

\* the matrix m with the diagonal d (d[i] at row i, column i)
WithDiagonal(m, d) ==
    [i \in 1..Len(m) |-> [j \in 1..Len(m[i]) |-> IF i = j THEN d[i] ELSE m[i][j]]]

\* C24: nearest_neighbor_tsp never reads a diagonal entry: when a call
\* returns, whatever is put on the diagonal of its matrix, entry by entry,
\* the function gives the order and the total the call returned.
C24_DiagonalNeverRead ==
    (pc = "append" /\ nn_log # << >>) =>
        LET call == nn_log[Len(nn_log)]
        IN  \A d \in [1..Len(call.matrix) -> DiagValues] :
                nearest_neighbor_tsp(WithDiagonal(call.matrix, d)) =
                    [order |-> call.order, total |-> call.total]

\* a call has returned for a 3-node matrix whose diagonal is not zero and
\* whose nearest start is not node 0
C24_Witness ==
    /\ pc = "append"
    /\ Len(nn_log) = 1
    /\ Len(nn_log[1].matrix) = 3
    /\ nn_log[1].matrix[1][1] > 0
    /\ nn_log[1].order[1] # 0
    /\ nn_log[1].total > 0

\* the positions (0-based) of the clusters nearest_neighbor_tsp solved
SolvedByFallback == { nn_log[a].cluster : a \in 1..Len(nn_log) }

\* C25: the label of the batch depends on the availability of the engine
\* alone: with the engine available the response carries the label of the
\* exact backend whichever clusters fell through to the fallback (none, some
\* or all of them), without it the label of the fallback, and no route
\* carries a label of its own.
C25_LabelIgnoresOutcomes ==
    pc = "done" =>
        /\ \A fell \in SUBSET (0..(Len(output.routes) - 1)) :
               (HAS_ORTOOLS /\ SolvedByFallback = fell) => output.solver = "ortools"
        /\ ~HAS_ORTOOLS =>
               /\ SolvedByFallback = 0..(Len(output.routes) - 1)
               /\ output.solver = "nearest_neighbor"
        /\ \A i \in 1..Len(output.routes) : "solver" \notin DOMAIN output.routes[i]

\* with the engine available both clusters of a batch fell through to the
\* fallback, and the response is labelled with the exact backend
C25_Witness ==
    /\ pc = "done"
    /\ HAS_ORTOOLS
    /\ Len(output.routes) = 2
    /\ SolvedByFallback = { 0, 1 }
    /\ output.solver = "ortools"

\* C26: a cluster with n <= 2 bypasses any solver: while it is being
\* solved, under either backend, no augmented matrix is built, the external
\* solver is not invoked and the multi-start greedy search is not run; the
\* call returns from its entry block.
C26_DegenerateBypassesSearch ==
    (pc \notin { "read", "loop", "done", "crashed" } /\ Len(matrix) <= 2) =>
        /\ pc \in { "ort_entry", "nn_entry", "append" }
        /\ aug_matrix = << >>
        /\ solution = NoSolution
        /\ order = << >>

\* C27: the augmented matrix built for an n x n input (n >= 3) is
\* (n+1) x (n+1): entry [i][j] is distanceMatrix[i][j] for i, j < n, every
\* entry of row n and of column n is 0, and node n is the depot of the one
\* vehicle: the tour the solver hands back starts there and meets it once.
C27_AugmentedMatrixShape ==
    /\ pc \in { "ort_solve", "ort_solved" } =>
           LET n == Len(matrix)
           IN  /\ n >= 3
               /\ Len(aug_matrix) = n + 1
               /\ \A i \in 0..n : Len(At(aug_matrix, i)) = n + 1
               /\ \A i, j \in 0..(n - 1) :
                      At(At(aug_matrix, i), j) = At(At(matrix, i), j)
               /\ \A k \in 0..n :
                      At(At(aug_matrix, n), k) = 0 /\ At(At(aug_matrix, k), n) = 0
    /\ (pc = "ort_solved" /\ solution # NoSolution) =>
           LET n == Len(matrix)
           IN  /\ Len(solution) = n + 1
               /\ At(solution, 0) = n
               /\ \A k \in 1..n : At(solution, k) \in 0..(n - 1)

\* the 4 x 4 augmented matrix of a 3-node matrix without a zero off the
\* diagonal, and a tour that leaves the depot 3 for node 2
C27_Witness ==
    /\ pc = "ort_solved"
    /\ Len(matrix) = 3
    /\ \A i, j \in 0..2 : i # j => At(At(matrix, i), j) > 0
    /\ At(aug_matrix, 3) = << 0, 0, 0, 0 >>
    /\ solution = << 3, 2, 0, 1 >>

\* C28: when the solver hands back a tour, the total returned is recomputed
\* on the original matrix along the tour without its depot; no error comes
\* of it, the fallback is not called, and the total equals the cost of the
\* closed tour in the augmented matrix.
C28_TotalRecomputedFromOriginal ==
    [][ (pc = "ort_solved" /\ solution # NoSolution) =>
            /\ pc' = "append"
            /\ err' = "none"
            /\ nn_log' = nn_log
            /\ ret'.order = Tail(solution)
            /\ ret'.total = EdgeSum(matrix, Tail(solution))
            /\ ret'.total = ClosedCost(aug_matrix, solution)
      ]_vars

\* the adapter has returned the path 1, 2, 0 for a 3-node matrix, with a
\* total above 0, and the fallback was not called
C28_Witness ==
    /\ HAS_ORTOOLS
    /\ pc = "append"
    /\ nn_log = << >>
    /\ Len(matrix) = 3
    /\ ret.order = << 1, 2, 0 >>
    /\ ret.total = At(At(matrix, 1), 2) + At(At(matrix, 2), 0)
    /\ ret.total > 0

\* the lowest-indexed start below k whose greedy path costs the least of the
\* starts below k (k >= 1)
FirstCheapestStart(m, k) ==
    CHOOSE s \in 0..(k - 1) :
        /\ GreedyCostOf(m, s) = LeastGreedyCost(m, k)
        /\ \A t \in 0..(s - 1) : GreedyCostOf(m, t) > GreedyCostOf(m, s)

\* C29: when several starts of nearest_neighbor_tsp give the same least
\* total, the path of the lowest-indexed of them is kept and returned: a
\* later start replaces the best kept only when it is strictly cheaper.
C29_LowestStartWinsTies ==
    /\ (pc = "nn_start" /\ start >= 1) =>
           best_order = GreedyPathOf(matrix, FirstCheapestStart(matrix, start))
    /\ \A a \in 1..Len(nn_log) :
           LET call == nn_log[a]
               n == Len(call.matrix)
           IN  n >= 2 =>
                   /\ call.order[1] = FirstCheapestStart(call.matrix, n)
                   /\ call.order = GreedyPathOf(call.matrix, call.order[1])

\* the starts 0 and 2 of a 3-node matrix both cost the least, above 0, and
\* the call has returned the path of the start 0
C29_Witness ==
    /\ Len(nn_log) = 1
    /\ Len(nn_log[1].matrix) = 3
    /\ nn_log[1].total > 0
    /\ GreedyCostOf(nn_log[1].matrix, 0) = nn_log[1].total
    /\ GreedyCostOf(nn_log[1].matrix, 1) > nn_log[1].total
    /\ GreedyCostOf(nn_log[1].matrix, 2) = nn_log[1].total
    /\ GreedyPathOf(nn_log[1].matrix, 2) # nn_log[1].order
    /\ nn_log[1].order[1] = 0

\* what is left of a nearest_neighbor_tsp call on n >= 2 nodes if every
\* start takes its n - 1 greedy steps: each start is one block of lines
\* 119-122, n - 1 iterations of the inner loop and one comparison; the
\* return is one more
StepsLeft ==
    LET n == Len(matrix)
        laterStarts == (n - start - 1) * (n + 1) + 1
    IN  CASE pc = "nn_start" -> (n - start) * (n + 1) + 1
          [] pc = "nn_step"  -> (n - 1 - step) + 1 + laterStarts
          [] pc = "nn_end"   -> 1 + laterStarts
          [] OTHER           -> 0

\* C30: on a square matrix with n >= 2 and finite entries
\* nearest_neighbor_tsp never takes the early break: every greedy step of
\* every start finds a next node, every candidate path has length n, the
\* call runs exactly n starts of n - 1 steps each and then returns, and what
\* it returns is neither a None order nor an infinite cost.
C30_NoEarlyBreak ==
    [][ LET n == Len(matrix)
        IN  /\ (pc = "nn_entry" /\ n >= 2) =>
                   pc' = "nn_start" /\ StepsLeft' = n * (n + 1) + 1
            /\ pc \in { "nn_start", "nn_step", "nn_end" } =>
                   /\ StepsLeft' = StepsLeft - 1
                   /\ err' = "none"
            /\ pc = "nn_step" => Len(order') = Len(order) + 1
            /\ pc = "nn_end" => Len(order) = n /\ step = n - 1
            /\ (pc = "nn_start" /\ pc' = "append") =>
                   /\ start = n
                   /\ ret'.order # None
                   /\ Len(ret'.order) = n
                   /\ ret'.total < Inf
      ]_vars

\* the last of the three starts of a 3-node matrix has taken its two steps
C30_Witness ==
    /\ pc = "nn_end"
    /\ Len(matrix) = 3
    /\ start = 2
    /\ step = 2
    /\ Len(order) = 3
    /\ best_order # None

=============================================================================
